---- MODULE Spec2Model ----
(***************************************************************************)
(* A model of the video converter of src/main.rs: the UI thread's update() *)
(* handler, the conversion worker threads it spawns, the mpsc channel      *)
(* between them, and the pure helpers (parse_duration, the output          *)
(* extension normalisation, the f32 arithmetic of the progress value).     *)
(*                                                                         *)
(* Strings are TLA+ strings; a character is a string of length one and     *)
(* offsets are 0-based as in Rust (an Option<usize> of None is -1).        *)
(* Only ASCII text is modelled, so byte offsets and character offsets      *)
(* agree.  An f32 is modelled as an exact value: a sign, and either a      *)
(* reduced fraction n/d, an infinity or NaN.  Signed zero, infinities and  *)
(* NaN behave as in IEEE 754; rounding to 24 bits and overflow of large    *)
(* finite values are not modelled.                                         *)
(***************************************************************************)
EXTENDS Integers, Sequences, FiniteSets, TLC

(***************************************************************************)
(* Text helpers: the std library calls the source makes on str.            *)
(***************************************************************************)
Ch(s, i) == SubSeq(s, i, i)

Digits == {"0", "1", "2", "3", "4", "5", "6", "7", "8", "9"}

DigitVal(c) ==
  CASE c = "0" -> 0 [] c = "1" -> 1 [] c = "2" -> 2 [] c = "3" -> 3
    [] c = "4" -> 4 [] c = "5" -> 5 [] c = "6" -> 6 [] c = "7" -> 7
    [] c = "8" -> 8 [] c = "9" -> 9

UpperLetters == "ABCDEFGHIJKLMNOPQRSTUVWXYZ"

LowerLetters == "abcdefghijklmnopqrstuvwxyz"

\* char::to_lowercase on an ASCII character.
LowerCh(c) ==
  IF \E i \in 1..Len(UpperLetters) : Ch(UpperLetters, i) = c
  THEN Ch(LowerLetters, CHOOSE j \in 1..Len(UpperLetters) : Ch(UpperLetters, j) = c)
  ELSE c

RECURSIVE to_lowercase(_)
\* str::to_lowercase.
to_lowercase(s) ==
  IF Len(s) = 0 THEN "" ELSE LowerCh(Ch(s, 1)) \o to_lowercase(Tail(s))

\* The least element of a set of offsets, -1 (None) when there is none.
First(hits) == IF hits = {} THEN -1 ELSE CHOOSE i \in hits : \A j \in hits : i <= j

\* The greatest element of a set of offsets, -1 (None) when there is none.
Last(hits) == IF hits = {} THEN -1 ELSE CHOOSE i \in hits : \A j \in hits : i >= j

\* str::find(&str): the 0-based offset of the first match, -1 for None.
find(s, pat) ==
  First({i \in 0..(Len(s) - Len(pat)) : SubSeq(s, i + 1, i + Len(pat)) = pat})

\* str::contains(&str).
contains(s, pat) == find(s, pat) # -1

\* str::find(|c| c \in set): the 0-based offset of the first such character.
find_char(s, set) == First({i \in 0..(Len(s) - 1) : Ch(s, i + 1) \in set})

\* str::rfind(char): the 0-based offset of the last occurrence, -1 for None.
rfind_char(s, c) == Last({i \in 0..(Len(s) - 1) : Ch(s, i + 1) = c})

RECURSIVE split(_, _)
\* str::split(char).collect(): always at least one field, empty fields kept.
split(s, sep) ==
  IF find_char(s, {sep}) = -1 THEN <<s>>
  ELSE <<SubSeq(s, 1, find_char(s, {sep}))>>
       \o split(SubSeq(s, find_char(s, {sep}) + 2, Len(s)), sep)

RECURSIVE trim_start_matches(_, _)
\* str::trim_start_matches(char).
trim_start_matches(s, c) ==
  IF Len(s) > 0 /\ Ch(s, 1) = c THEN trim_start_matches(Tail(s), c) ELSE s

AllIn(s, set) == \A i \in 1..Len(s) : Ch(s, i) \in set

(***************************************************************************)
(* f32 values and the arithmetic the source applies to them.               *)
(***************************************************************************)
RECURSIVE GCD(_, _)
GCD(a, b) == IF b = 0 THEN a ELSE GCD(b, a % b)

NaN == [k |-> "nan", neg |-> FALSE, n |-> 0, d |-> 1]

Inf(neg) == [k |-> "inf", neg |-> neg, n |-> 0, d |-> 1]

\* The finite value (-1)^neg * n/d, as a reduced fraction.
Fin(neg, n, d) ==
  [k |-> "fin", neg |-> neg, n |-> n \div GCD(n, d), d |-> d \div GCD(n, d)]

F(n) == Fin(FALSE, n, 1)

IsZero(a) == a.k = "fin" /\ a.n = 0

\* a + b
FAdd(a, b) ==
  IF a.k = "nan" \/ b.k = "nan" THEN NaN
  ELSE IF a.k = "inf" /\ b.k = "inf" THEN (IF a.neg = b.neg THEN a ELSE NaN)
  ELSE IF a.k = "inf" THEN a
  ELSE IF b.k = "inf" THEN b
  ELSE IF a.neg = b.neg THEN Fin(a.neg, a.n * b.d + b.n * a.d, a.d * b.d)
  ELSE IF a.n * b.d = b.n * a.d THEN Fin(FALSE, 0, 1)
  ELSE IF a.n * b.d > b.n * a.d THEN Fin(a.neg, a.n * b.d - b.n * a.d, a.d * b.d)
  ELSE Fin(b.neg, b.n * a.d - a.n * b.d, a.d * b.d)

\* a * b
FMul(a, b) ==
  IF a.k = "nan" \/ b.k = "nan" THEN NaN
  ELSE IF (a.k = "inf" /\ IsZero(b)) \/ (IsZero(a) /\ b.k = "inf") THEN NaN
  ELSE IF a.k = "inf" \/ b.k = "inf" THEN Inf(a.neg # b.neg)
  ELSE Fin(a.neg # b.neg, a.n * b.n, a.d * b.d)

\* a / b
FDiv(a, b) ==
  IF a.k = "nan" \/ b.k = "nan" THEN NaN
  ELSE IF a.k = "inf" /\ b.k = "inf" THEN NaN
  ELSE IF IsZero(a) /\ IsZero(b) THEN NaN
  ELSE IF a.k = "inf" \/ IsZero(b) THEN Inf(a.neg # b.neg)
  ELSE IF b.k = "inf" THEN Fin(a.neg # b.neg, 0, 1)
  ELSE Fin(a.neg # b.neg, a.n * b.d, a.d * b.n)

\* a > b; every comparison with NaN is false.
FGt(a, b) ==
  IF a.k = "nan" \/ b.k = "nan" THEN FALSE
  ELSE IF IsZero(a) /\ IsZero(b) THEN FALSE
  ELSE IF a.k = "inf" THEN ~a.neg /\ ~(b.k = "inf" /\ ~b.neg)
  ELSE IF b.k = "inf" THEN b.neg
  ELSE IF a.neg # b.neg THEN b.neg
  ELSE IF a.neg THEN a.n * b.d < b.n * a.d
  ELSE a.n * b.d > b.n * a.d

\* a >= b
FGe(a, b) == a.k # "nan" /\ b.k # "nan" /\ ~FGt(b, a)

RECURSIVE DecVal(_)
\* The value of a string of decimal digits.
DecVal(s) ==
  IF Len(s) = 0 THEN 0
  ELSE DecVal(SubSeq(s, 1, Len(s) - 1)) * 10 + DigitVal(Ch(s, Len(s)))

RECURSIVE Pow10(_)
Pow10(e) == IF e = 0 THEN 1 ELSE 10 * Pow10(e - 1)

Err == [ok |-> FALSE]

Ok(v) == [ok |-> TRUE, v |-> v]

\* Number ::= ( Digit+ | Digit+ '.' Digit* | Digit* '.' Digit+ ) with the
\* digits before (ip) and after (fp) the point: [ok, n, d].
Mantissa(ip, fp) ==
  IF AllIn(ip, Digits) /\ AllIn(fp, Digits) /\ Len(ip) + Len(fp) > 0
  THEN [ok |-> TRUE, n |-> DecVal(ip \o fp), d |-> Pow10(Len(fp))]
  ELSE [ok |-> FALSE, n |-> 0, d |-> 1]

ParseMantissa(s) ==
  IF find_char(s, {"."}) = -1 THEN Mantissa(s, "")
  ELSE Mantissa(SubSeq(s, 1, find_char(s, {"."})),
                SubSeq(s, find_char(s, {"."}) + 2, Len(s)))

\* Sign? of a number or an exponent: the sign and the rest.
IsNeg(s) == Len(s) > 0 /\ Ch(s, 1) = "-"

Unsigned(s) == IF Len(s) > 0 /\ Ch(s, 1) \in {"+", "-"} THEN Tail(s) ELSE s

\* Exp ::= 'e' Sign? Digit+, after the 'e': [ok, neg, e].
ParseExp(s) ==
  IF Len(Unsigned(s)) > 0 /\ AllIn(Unsigned(s), Digits)
  THEN [ok |-> TRUE, neg |-> IsNeg(s), e |-> DecVal(Unsigned(s))]
  ELSE [ok |-> FALSE, neg |-> FALSE, e |-> 0]

\* The value of a mantissa and an exponent, both parsed.
Scaled(neg, mant, exp) ==
  IF ~(mant.ok /\ exp.ok) THEN Err
  ELSE IF exp.neg THEN Ok(Fin(neg, mant.n, mant.d * Pow10(exp.e)))
  ELSE Ok(Fin(neg, mant.n * Pow10(exp.e), mant.d))

\* Number Exp?, with the offset of the 'e' (-1: no exponent).
ParseNumber(neg, body, epos) ==
  IF epos = -1 THEN Scaled(neg, ParseMantissa(body), [ok |-> TRUE, neg |-> FALSE, e |-> 0])
  ELSE Scaled(neg, ParseMantissa(SubSeq(body, 1, epos)),
              ParseExp(SubSeq(body, epos + 2, Len(body))))

ParseUnsigned(neg, body) ==
  IF body \in {"inf", "infinity"} THEN Ok(Inf(neg))
  ELSE IF body = "nan" THEN Ok(NaN)
  ELSE ParseNumber(neg, body, find_char(body, {"e"}))

ParseLower(s) == ParseUnsigned(IsNeg(s), Unsigned(s))

\* <f32 as FromStr>::from_str: Sign? ( 'inf' | 'infinity' | 'nan' | Number Exp? ),
\* letters in either case, no surrounding white space.
ParseF32(str) == ParseLower(to_lowercase(str))

\* hours * 3600.0 + minutes * 60.0 + seconds, each field a parse result; the
\* first field that failed to parse makes the `?` return Err(()).
DurationOf(hours, minutes, seconds) ==
  IF ~hours.ok THEN Err
  ELSE IF ~minutes.ok THEN Err
  ELSE IF ~seconds.ok THEN Err
  ELSE Ok(FAdd(FAdd(FMul(hours.v, F(3600)), FMul(minutes.v, F(60))), seconds.v))

DurationOfParts(parts) ==
  IF Len(parts) # 3 THEN Err
  ELSE DurationOf(ParseF32(parts[1]), ParseF32(parts[2]), ParseF32(parts[3]))

\* fn parse_duration(duration: &str) -> Result<f32, ()>
parse_duration(duration) == DurationOfParts(split(duration, ":"))

(***************************************************************************)
(* std::path::Path, for Unix paths ("/" is the only separator).            *)
(***************************************************************************)
None == [some |-> FALSE]

Some(v) == [some |-> TRUE, v |-> v]

\* The last normal component of a list of components.
LastNormal(comps) ==
  IF Len(comps) = 0 THEN None
  ELSE IF comps[Len(comps)] = ".." THEN None
  ELSE Some(comps[Len(comps)])

\* Path::file_name: the last component when it is a normal one.  Empty
\* components (repeated or trailing separators) and "." components are not
\* components of the path; a final ".." has no file name.
path_file_name(p) ==
  LastNormal(SelectSeq(split(p, "/"), LAMBDA c : c # "" /\ c # "."))

\* std::path::rsplit_file_at_dot: <<before, after>> of the last '.', where a
\* name that starts with its only dot is all stem.
rsplit_file_at_dot(file) ==
  IF file = ".." THEN <<Some(file), None>>
  ELSE IF rfind_char(file, ".") = -1 THEN <<None, Some(file)>>
  ELSE IF rfind_char(file, ".") = 0 THEN <<Some(file), None>>
  ELSE <<Some(SubSeq(file, 1, rfind_char(file, "."))),
         Some(SubSeq(file, rfind_char(file, ".") + 2, Len(file)))>>

\* before.and(after)
OptAnd(ba) == IF ba[1].some THEN ba[2] ELSE None

\* before.or(after)
OptOr(ba) == IF ba[1].some THEN ba[1] ELSE ba[2]

\* Path::extension
path_extension(p) ==
  IF ~path_file_name(p).some THEN None
  ELSE OptAnd(rsplit_file_at_dot(path_file_name(p).v))

\* Path::file_stem
path_file_stem(p) ==
  IF ~path_file_name(p).some THEN None
  ELSE OptOr(rsplit_file_at_dot(path_file_name(p).v))

(***************************************************************************)
(* The program's constants and the pure parts of the Convert handler and   *)
(* of the worker closure.                                                  *)
(***************************************************************************)
\* const SUPPORTED_FORMATS: (display name, extension); index i of the source
\* is index i + 1 here.
SUPPORTED_FORMATS ==
  << <<"MP4", ".mp4">>, <<"AVI", ".avi">>, <<"MKV", ".mkv">>,
     <<"MOV", ".mov">>, <<"WMV", ".wmv">>, <<"FLV", ".flv">> >>

FormatIndex == 0..(Len(SUPPORTED_FORMATS) - 1)

SelectedExtension(selected_format) == SUPPORTED_FORMATS[selected_format + 1][2]

\* The branch of the normalisation taken when the path has an extension.
ReplaceExtension(output, ext, stem, selected_extension) ==
  IF to_lowercase(ext) # to_lowercase(trim_start_matches(selected_extension, "."))
  THEN (IF stem.some THEN stem.v \o selected_extension ELSE output)
  ELSE output

\* The Convert handler's extension normalisation of `output`.
NormalizeOutput(output, selected_extension) ==
  IF ~path_extension(output).some THEN output \o selected_extension
  ELSE ReplaceExtension(output, path_extension(output).v, path_file_stem(output),
                        selected_extension)

\* enum Message
Status(s) == [t |-> "Status", s |-> s]

Progress(p) == [t |-> "Progress", p |-> p]

\* The text of an std::io::Error in a formatted status.
IoError == "<io error>"

MsgNeedFiles == "Please specify both input and output files."

\* The worker's validation of the request: TRUE when it goes on.
RequestAccepted(input, output) == ~(input = "" \/ output = "")

\* The result of parsing the slice taken from the duration line.
TotalOf(parsed) ==
  IF parsed.ok THEN [k |-> "ok", total |-> parsed.v]
  ELSE [k |-> "abort", s |-> "Failed to parse video duration."]

\* The handling of the first line that contains "Duration:", `start` being
\* the offset of "Duration: " in it.  The slice [start + 10 .. start + 19]
\* panics when the line ends before its end.
DurationLineTotal(duration_line, start) ==
  IF start = -1 THEN [k |-> "abort", s |-> "Failed to find duration information."]
  ELSE IF start + 19 > Len(duration_line) THEN [k |-> "panic"]
  ELSE TotalOf(parse_duration(SubSeq(duration_line, start + 11, start + 19)))

\* stderr.lines().find(|line| line.contains("Duration:")) and what follows,
\* `hits` being the indexes of the lines that contain it.
LinesTotal(lines, hits) ==
  IF hits = {} THEN [k |-> "abort", s |-> "Failed to retrieve video duration."]
  ELSE DurationLineTotal(lines[First(hits)],
                         find(lines[First(hits)], "Duration: "))

\* The duration probe's result handling: `r` is the Result of
\* Command::output(), with the lines of its captured stderr.  The outcome is
\* the total duration, an abort with a status text, or a panic of the thread.
ProbeTotal(r) ==
  IF ~r.ok
  THEN [k |-> "abort", s |-> "Failed to execute ffmpeg for duration: " \o IoError]
  ELSE LinesTotal(r.lines, {i \in 1..Len(r.lines) : contains(r.lines[i], "Duration:")})

\* The text of time_str up to the next space or comma, at offset sep, or to
\* its end.
UpTo(time_str, sep) ==
  SubSeq(time_str, 1, IF sep = -1 THEN Len(time_str) ELSE sep)

TokenOf(time_str) == UpTo(time_str, find_char(time_str, {" ", ","}))

\* The text after "time=" up to the next space or comma (or the end of the
\* line); None when the line has no "time=".
time_token(line) ==
  IF find(line, "time=") = -1 THEN None
  ELSE Some(TokenOf(SubSeq(line, find(line, "time=") + 6, Len(line))))

\* if progress > 100.0 { 100.0 } else { progress }
Clamp(progress) == IF FGt(progress, F(100)) THEN F(100) ELSE progress

\* The progress value of a parsed elapsed time.
ProgressValue(current_seconds, total_duration) ==
  Clamp(FMul(FDiv(current_seconds, total_duration), F(100)))

\* A line whose time does not parse reports a progress of zero.
TimeMessages_zeroOnError(cur, total_duration) ==
  IF cur.ok THEN <<Progress(ProgressValue(cur.v, total_duration))>>
  ELSE <<Progress(F(0))>>

\* The message sent for the parse result of a line's time.
TimeMessages(cur, total_duration) ==
  IF cur.ok THEN <<Progress(ProgressValue(cur.v, total_duration))>> ELSE <<>>

\* The messages one item of reader.lines() makes the worker send: `item` is
\* the Result of reading a line.
LineMessages(item, total_duration) ==
  IF ~item.ok THEN <<>>
  ELSE IF ~time_token(item.v).some THEN <<>>
  ELSE TimeMessages(parse_duration(time_token(item.v).v), total_duration)

\* Every outcome of wait() forces the progress to 100.
WaitMessages_forced100(exit) ==
  IF exit = "success"
  THEN <<Status("Conversion successful."), Progress(F(100))>>
  ELSE IF exit = "failure" THEN <<Status("Conversion failed."), Progress(F(100))>>
  ELSE <<Status("Failed to wait on ffmpeg: " \o IoError), Progress(F(100))>>

\* The messages sent after ffmpeg_process.wait(): `exit` is "success",
\* "failure" (a non-zero exit status) or "error" (wait failed).
WaitMessages(exit) ==
  IF exit = "success"
  THEN <<Status("Conversion successful."), Progress(F(100))>>
  ELSE IF exit = "failure" THEN <<Status("Conversion failed.")>>
  ELSE <<Status("Failed to wait on ffmpeg: " \o IoError)>>

(***************************************************************************)
(* Bounds and the inputs the environment (the user, ffmpeg) may supply.    *)
(***************************************************************************)
\* Conversions started in one run.
MaxWorkers == 2

\* Lines read from the transcoders' stderr in one run, all conversions together.
MaxLines == 2

\* Colon-separated fields of a string handed to parse_duration in SpecParse.
MaxFields == 4

\* What the user types into the input field, which starts empty.
InputChoices == {"in.mp4"}

\* What the user types into the output field, which starts empty.
OutputChoices == {"out.avi"}

\* Results of the duration probe: a launch error, or the lines of stderr.
ProbeChoices ==
  { Err,
    [ok |-> TRUE, lines |-> <<"Input #0, from 'in.mp4':">>],
    [ok |-> TRUE, lines |-> <<"Input #0", "  Duration:N/A, bitrate: N/A">>],
    [ok |-> TRUE, lines |-> <<"Input #0", "  Duration: N/A, bitrate: N/A">>],
    [ok |-> TRUE, lines |-> <<"  Duration: 00:00:02.00, start: 0.0", "Duration: x">>],
    [ok |-> TRUE, lines |-> <<"  Duration: 00:00:00.50, start: 0.0">>],
    [ok |-> TRUE, lines |-> <<"  Duration: 00:01">>] }

\* Items of reader.lines(): a read error, or a line.
LineChoices ==
  { Err,
    Ok("frame=1 fps=0.0 q=0.0 size=0kB"),
    Ok("size=0kB time=N/A bitrate=N/A"),
    Ok("size=0kB time=00:00:00.00 bitrate=N/A"),
    Ok("size=1kB time=00:00:01.00, speed=1x"),
    Ok("time=00:00:03.00") }

ExitChoices == {"success", "failure", "error"}

\* The transcoder's behaviour in Spec, where conversions run side by side:
\* the probe reports two seconds, every line read reports one second, and
\* a transcoder that started exits with success.
FewProbeChoices ==
  { [ok |-> TRUE, lines |-> <<"  Duration: 00:00:02.00, start: 0.0">>] }

FewLineChoices == { Ok("size=1kB time=00:00:01.00, speed=1x") }

FewExitChoices == {"success"}

\* Output paths of SpecNormalize: a directory part, a stem and an ending.
PathSamples ==
  { dir \o stem \o ending :
      dir \in {"", "d/", "/", "a.b/"},
      stem \in {"", "movie", ".hidden", "my.movie", ".."},
      ending \in {"", ".", ".avi", ".MKV", ".Mp4", ".mkv", "/"} }

\* Fields of the strings of SpecParse.
FieldChoices == {"", "0", "36.", ".5", "-1", "+2", "x", "nan"}

RECURSIVE Joined(_)
\* The strings of exactly n fields.
Joined(n) ==
  IF n = 1 THEN FieldChoices
  ELSE {f \o ":" \o r : f \in FieldChoices, r \in Joined(n - 1)}

DurationSamples == UNION {Joined(n) : n \in 1..MaxFields}

(***************************************************************************)
(* State.                                                                  *)
(*   input_file, output_file, selected_format, status, progress: the       *)
(*     fields of VideoConverterApp (the metadata fields only add arguments *)
(*     to the transcoder's command line and are left out).  In Spec and    *)
(*     SpecSolo the format stays the default; SpecNormalize starts from    *)
(*     every format;                                                       *)
(*   chan: the messages sent on tx and not yet received from rx, each      *)
(*     paired with the worker that sent it;                                *)
(*   workers: one record per thread the Convert handler has spawned;       *)
(*   applied: history, the messages the drain loop has applied;            *)
(*   arg, res: the argument and result of parse_duration in SpecParse.     *)
(* A worker's record holds its captured input and output, its position pc, *)
(* total_duration, and as history: the user's output path and format at    *)
(* the click, the numbers of probe and transcoder launches, the items read *)
(* from stderr, the exit outcome and the messages it has sent.             *)
(***************************************************************************)
VARIABLES input_file, output_file, selected_format, status, progress,
          chan, workers, applied, arg, res

vars == <<input_file, output_file, selected_format, status, progress,
          chan, workers, applied, arg, res>>

WorkerIds == 1..Len(workers)

\* impl Default for VideoConverterApp
Init ==
  /\ input_file = ""
  /\ output_file = ""
  /\ selected_format = 0
  /\ status = ""
  /\ progress = F(0)
  /\ chan = <<>>
  /\ workers = <<>>
  /\ applied = <<>>
  /\ arg = ""
  /\ res = None

\* A send on a channel of capacity one that gives up when it is full.
ChanSend_bounded(c, m) == IF Len(c) >= 1 THEN c ELSE Append(c, m)

\* Sender::send on the unbounded channel.
ChanSend(c, m) == Append(c, m)

RECURSIVE SendAll(_, _, _)
\* The channel after worker w has sent msgs in order.
SendAll(c, w, msgs) ==
  IF Len(msgs) = 0 THEN c
  ELSE SendAll(ChanSend(c, [from |-> w, msg |-> Head(msgs)]), w, Tail(msgs))

\* One iteration of the drain loop's match on a received message.
ApplyMessage(ui, message) ==
  IF message.t = "Status" THEN [ui EXCEPT !.status = message.s]
  ELSE [ui EXCEPT !.progress = message.p]

RECURSIVE DrainLoop(_, _)
\* while let Ok(message) = self.rx.try_recv(): the UI state and the messages
\* received once try_recv finds the channel empty.
DrainLoop(ui, c) ==
  IF Len(c) = 0 THEN ui
  ELSE DrainLoop([ApplyMessage(ui, Head(c).msg) EXCEPT !.got = Append(@, Head(c))],
                 Tail(c))

Drained == DrainLoop([status |-> status, progress |-> progress, got |-> <<>>], chan)

\* update() in a frame without input: the drain loop alone.
UpdateIdle ==
  /\ chan # <<>>
  /\ status' = Drained.status
  /\ progress' = Drained.progress
  /\ applied' = applied \o Drained.got
  /\ chan' = SubSeq(chan, Len(Drained.got) + 1, Len(chan))
  /\ UNCHANGED <<input_file, output_file, selected_format, workers, arg, res>>

\* update() in a frame in which the user edits the input field.
UpdateEditInput ==
  /\ Len(workers) < MaxWorkers
  /\ \E p \in InputChoices \ {input_file} : input_file' = p
  /\ status' = Drained.status
  /\ progress' = Drained.progress
  /\ applied' = applied \o Drained.got
  /\ chan' = SubSeq(chan, Len(Drained.got) + 1, Len(chan))
  /\ UNCHANGED <<output_file, selected_format, workers, arg, res>>

\* update() in a frame in which the user edits the output field.
UpdateEditOutput ==
  /\ Len(workers) < MaxWorkers
  /\ \E p \in OutputChoices \ {output_file} : output_file' = p
  /\ status' = Drained.status
  /\ progress' = Drained.progress
  /\ applied' = applied \o Drained.got
  /\ chan' = SubSeq(chan, Len(Drained.got) + 1, Len(chan))
  /\ UNCHANGED <<input_file, selected_format, workers, arg, res>>

\* The record of a thread just spawned with the captured input and output.
NewWorker(input, output, user_output, format) ==
  [pc |-> "start", input |-> input, output |-> output, total |-> F(0),
   user_output |-> user_output, format |-> format,
   probes |-> 0, spawns |-> 0, lines |-> <<>>, exit |-> "none", sent |-> <<>>]

\* update() in a frame in which the user clicks Convert: the drain loop,
\* then the handler up to thread::spawn.
UpdateConvert ==
  /\ Len(workers) < MaxWorkers
  /\ \E output \in {NormalizeOutput(output_file, SelectedExtension(selected_format))} :
       /\ output_file' = output
       /\ workers' = Append(workers,
                            NewWorker(input_file, output, output_file, selected_format))
  /\ progress' = F(0)
  /\ status' = "Starting conversion..."
  /\ applied' = applied \o Drained.got
  /\ chan' = SubSeq(chan, Len(Drained.got) + 1, Len(chan))
  /\ UNCHANGED <<input_file, selected_format, arg, res>>

\* Worker w sends msgs and goes to pc.
WorkerSends(w, msgs, pc) ==
  /\ workers' = [workers EXCEPT ![w].pc = pc, ![w].sent = @ \o msgs]
  /\ chan' = SendAll(chan, w, msgs)

\* The closure's first step: the check of the two paths, then the launch of
\* the duration probe.
WorkerValidate(w) ==
  /\ workers[w].pc = "start"
  /\ IF RequestAccepted(workers[w].input, workers[w].output)
     THEN /\ workers' = [workers EXCEPT ![w].pc = "probe", ![w].probes = @ + 1]
          /\ UNCHANGED chan
     ELSE WorkerSends(w, <<Status(MsgNeedFiles)>>, "done")
  /\ UNCHANGED <<input_file, output_file, selected_format, status, progress,
                 applied, arg, res>>

\* Command::output() returns one of `results`: total_duration, or an abort,
\* or a panic.
WorkerProbe(w, results) ==
  /\ workers[w].pc = "probe"
  /\ \E r \in results : \E t \in {ProbeTotal(r)} :
       IF t.k = "ok"
       THEN /\ workers' = [workers EXCEPT ![w].pc = "spawn", ![w].total = t.total]
            /\ UNCHANGED chan
       ELSE IF t.k = "abort" THEN WorkerSends(w, <<Status(t.s)>>, "done")
       ELSE /\ workers' = [workers EXCEPT ![w].pc = "panicked"]
            /\ UNCHANGED chan
  /\ UNCHANGED <<input_file, output_file, selected_format, status, progress,
                 applied, arg, res>>

\* The transcoder's command is built and spawned.
WorkerSpawn(w) ==
  /\ workers[w].pc = "spawn"
  /\ \E started \in BOOLEAN :
       IF started
       THEN /\ workers' = [workers EXCEPT ![w].pc = "stream", ![w].spawns = @ + 1]
            /\ UNCHANGED chan
       ELSE /\ workers' = [workers EXCEPT
                             ![w].pc = "done", ![w].spawns = @ + 1,
                             ![w].sent = @ \o <<Status("Failed to start ffmpeg: " \o IoError)>>]
            /\ chan' = SendAll(chan, w, <<Status("Failed to start ffmpeg: " \o IoError)>>)
  /\ UNCHANGED <<input_file, output_file, selected_format, status, progress,
                 applied, arg, res>>

RECURSIVE LinesRead(_)
\* The number of items the first n workers have read from stderr.
LinesRead(n) == IF n = 0 THEN 0 ELSE LinesRead(n - 1) + Len(workers[n].lines)

\* One iteration of `for line in reader.lines()`, on one of `items`.
WorkerReadLine(w, items) ==
  /\ workers[w].pc = "stream"
  /\ LinesRead(Len(workers)) < MaxLines
  /\ \E item \in items : \E msgs \in {LineMessages(item, workers[w].total)} :
       /\ workers' = [workers EXCEPT ![w].lines = Append(@, item),
                                     ![w].sent = @ \o msgs]
       /\ chan' = SendAll(chan, w, msgs)
  /\ UNCHANGED <<input_file, output_file, selected_format, status, progress,
                 applied, arg, res>>

\* reader.lines() ends: the transcoder has closed its stderr.
WorkerEof(w) ==
  /\ workers[w].pc = "stream"
  /\ workers' = [workers EXCEPT ![w].pc = "wait"]
  /\ UNCHANGED <<input_file, output_file, selected_format, status, progress,
                 chan, applied, arg, res>>

\* ffmpeg_process.wait() returns one of `exits`.
WorkerWait(w, exits) ==
  /\ workers[w].pc = "wait"
  /\ \E exit \in exits :
       /\ workers' = [workers EXCEPT ![w].pc = "done", ![w].exit = exit,
                                     ![w].sent = @ \o WaitMessages(exit)]
       /\ chan' = SendAll(chan, w, WaitMessages(exit))
  /\ UNCHANGED <<input_file, output_file, selected_format, status, progress,
                 applied, arg, res>>

Next ==
  \/ UpdateIdle
  \/ UpdateEditInput
  \/ UpdateEditOutput
  \/ UpdateConvert
  \/ \E w \in WorkerIds : WorkerValidate(w)
  \/ \E w \in WorkerIds : WorkerProbe(w, FewProbeChoices)
  \/ \E w \in WorkerIds : WorkerSpawn(w)
  \/ \E w \in WorkerIds : WorkerReadLine(w, FewLineChoices)
  \/ \E w \in WorkerIds : WorkerEof(w)
  \/ \E w \in WorkerIds : WorkerWait(w, FewExitChoices)

\* The whole program: the UI thread and up to MaxWorkers conversions, with
\* the transcoder's behaviour drawn from the small sets.
Spec == Init /\ [][Next]_vars

(***************************************************************************)
(* SpecSolo: one conversion from the click to its end, with the            *)
(* transcoder's behaviour drawn from the full sets.  It starts in the      *)
(* state the Convert handler leaves.                                       *)
(***************************************************************************)
InitSolo ==
  /\ input_file \in {""} \cup InputChoices
  /\ selected_format = 0
  /\ \E given \in {""} \cup OutputChoices :
       /\ output_file = NormalizeOutput(given, SelectedExtension(0))
       /\ workers = <<NewWorker(input_file, output_file, given, 0)>>
  /\ status = "Starting conversion..."
  /\ progress = F(0)
  /\ chan = <<>>
  /\ applied = <<>>
  /\ arg = ""
  /\ res = None

NextSolo ==
  \/ UpdateIdle
  \/ \E w \in WorkerIds : WorkerValidate(w)
  \/ \E w \in WorkerIds : WorkerProbe(w, ProbeChoices)
  \/ \E w \in WorkerIds : WorkerSpawn(w)
  \/ \E w \in WorkerIds : WorkerReadLine(w, LineChoices)
  \/ \E w \in WorkerIds : WorkerEof(w)
  \/ \E w \in WorkerIds : WorkerWait(w, ExitChoices)

SpecSolo == InitSolo /\ [][NextSolo]_vars

(***************************************************************************)
(* SpecNormalize: the Convert handler alone, clicked with every sampled    *)
(* output path and every format in the fields.                             *)
(***************************************************************************)
InitNormalize ==
  /\ input_file = "in.mp4"
  /\ output_file \in PathSamples
  /\ selected_format \in FormatIndex
  /\ status = ""
  /\ progress = F(0)
  /\ chan = <<>>
  /\ workers = <<>>
  /\ applied = <<>>
  /\ arg = ""
  /\ res = None

SpecNormalize == InitNormalize /\ [][UpdateConvert]_vars

(***************************************************************************)
(* SpecParse: parse_duration applied to every sampled string.              *)
(***************************************************************************)
InitParse ==
  /\ input_file = ""
  /\ output_file = ""
  /\ selected_format = 0
  /\ status = ""
  /\ progress = F(0)
  /\ chan = <<>>
  /\ workers = <<>>
  /\ applied = <<>>
  /\ arg \in DurationSamples
  /\ res = None

ParseStep ==
  /\ ~res.some
  /\ res' = Some(parse_duration(arg))
  /\ UNCHANGED <<input_file, output_file, selected_format, status, progress,
                 chan, workers, applied, arg>>

SpecParse == InitParse /\ [][ParseStep]_vars

(***************************************************************************)
(* The claims.                                                             *)
(***************************************************************************)
Statuses(msgs) == SelectSeq(msgs, LAMBDA m : m.t = "Status")

\* Worker w has ended: normally, or by a panic.
Ended(w) == workers[w].pc \in {"done", "panicked"}

\* C1: a worker whose transcoder was spawned and whose wait() has returned
\* has sent, after the Progress messages of the streaming, exactly one ending
\* and nothing after it: Status("Conversion successful.") then Progress(100)
\* on success, Status("Conversion failed.") alone on a non-zero exit, one
\* failure Status alone on a wait error.  Before wait() returns it has sent
\* no Status at all.
C1_TerminalEnding ==
  \A w \in WorkerIds :
    LET me == workers[w]
        n  == Len(me.sent)
    IN  /\ me.pc \in {"stream", "wait"} => Statuses(me.sent) = <<>>
        /\ (me.pc = "done" /\ me.exit = "success") =>
             /\ n >= 2
             /\ me.sent[n - 1] = Status("Conversion successful.")
             /\ me.sent[n] = Progress(F(100))
             /\ Len(Statuses(me.sent)) = 1
        /\ (me.pc = "done" /\ me.exit = "failure") =>
             /\ n >= 1
             /\ me.sent[n] = Status("Conversion failed.")
             /\ Len(Statuses(me.sent)) = 1
        /\ (me.pc = "done" /\ me.exit = "error") =>
             /\ n >= 1
             /\ me.sent[n].t = "Status"
             /\ me.sent[n].s \notin {"Conversion successful.", "Conversion failed."}
             /\ Len(Statuses(me.sent)) = 1

\* A conversion that reported partial progress and then failed: its last
\* message is the failure status, with no Progress after it.
C1_Witness ==
  \E w \in WorkerIds :
    /\ workers[w].pc = "done"
    /\ workers[w].exit = "failure"
    /\ workers[w].spawns = 1
    /\ Len(workers[w].sent) = 2
    /\ workers[w].sent[1].t = "Progress"

\* The messages of worker w in a sequence of tagged messages, in order.
FromWorker(tagged, w) ==
  LET mine == SelectSeq(tagged, LAMBDA e : e.from = w)
  IN  [i \in 1..Len(mine) |-> mine[i].msg]

\* C2: the messages the drain loop has applied, followed by those still
\* buffered, hold every message every worker has sent exactly once and, for
\* each worker, in the order it sent them; and a frame's drain applies all
\* that is buffered and leaves the channel empty.
C2_ChannelDelivery ==
  /\ [](/\ \A w \in WorkerIds : FromWorker(applied \o chan, w) = workers[w].sent
        /\ \A i \in 1..Len(applied \o chan) : (applied \o chan)[i].from \in WorkerIds)
  /\ [][applied' # applied => (applied' = applied \o chan /\ chan' = <<>>)]_vars

\* The UI has applied messages of two workers interleaved, and more are
\* buffered.
C2_Witness ==
  /\ chan # <<>>
  /\ \E i, j, k \in 1..Len(applied) :
       /\ i < j /\ j < k
       /\ applied[i].from = applied[k].from
       /\ applied[i].from # applied[j].from

\* The total duration Phase 1 hands to Phase 2 is a finite number above zero.
StrictlyPositive(x) == x.k = "fin" /\ ~x.neg /\ x.n > 0

\* C3: the transcoder is spawned only with a strictly positive total
\* duration; a worker that ended after the probe without spawning it has
\* sent one Status and no Progress.
C3_SpawnOnlyWithPositiveDuration ==
  \A w \in WorkerIds :
    /\ workers[w].spawns > 0 => StrictlyPositive(workers[w].total)
    /\ (workers[w].pc = "done" /\ workers[w].probes > 0 /\ workers[w].spawns = 0) =>
         (Len(workers[w].sent) = 1 /\ workers[w].sent[1].t = "Status")

\* C4: no worker thread ends by a panic, and a worker that has ended has
\* sent a Status.
C4_EndsWithStatus ==
  \A w \in WorkerIds :
    /\ workers[w].pc # "panicked"
    /\ Ended(w) => Statuses(workers[w].sent) # <<>>

\* C5: a Convert clicked with an empty input field or an empty output field
\* makes the worker send the one Status asking for both files, and ffmpeg is
\* launched neither for the probe nor for the transcode.
C5_EmptyPathRejected ==
  \A w \in WorkerIds :
    (workers[w].input = "" \/ workers[w].user_output = "") =>
      /\ workers[w].probes = 0
      /\ workers[w].spawns = 0
      /\ workers[w].pc # "start" => workers[w].sent = <<Status(MsgNeedFiles)>>

InRange(x) == x.k = "fin" /\ FGe(x, F(0)) /\ FGe(F(100), x)

\* C6: every Progress message sent, buffered or applied, and the UI's
\* progress field, is a percentage from 0 to 100.
C6_ProgressInRange ==
  /\ InRange(progress)
  /\ \A w \in WorkerIds : \A i \in 1..Len(workers[w].sent) :
       workers[w].sent[i].t = "Progress" => InRange(workers[w].sent[i].p)
  /\ \A i \in 1..Len(applied \o chan) :
       (applied \o chan)[i].msg.t = "Progress" => InRange((applied \o chan)[i].msg.p)

\* C7: at most one worker has not yet ended.
C7_OneActiveWorker == Cardinality({w \in WorkerIds : ~Ended(w)}) <= 1

\* An item of reader.lines() that carries a parseable time: a line, with a
\* "time=" marker, whose text up to the next space or comma parse_duration
\* accepts.
Parseable(item) ==
  /\ item.ok
  /\ find(item.v, "time=") # -1
  /\ parse_duration(time_token(item.v).v).ok

\* The items of LineChoices that carry a parseable time, and the elapsed
\* seconds of each.
ParseableItems == {item \in LineChoices : Parseable(item)}

ElapsedOf == [item \in ParseableItems |-> parse_duration(time_token(item.v).v).v]

\* The Progress message of a parseable item: elapsed / total * 100, and 100
\* when that is above 100.
EventOf(item, total) ==
  LET percent == FMul(FDiv(ElapsedOf[item], total), F(100))
  IN  Progress(IF FGt(percent, F(100)) THEN F(100) ELSE percent)

\* C8: while a worker streams, the messages it has sent are the Progress
\* messages of the parseable items it has read, one for each, in order; and
\* reading an item, whatever it is, leaves the worker streaming.
C8_ProgressPerParseableLine ==
  /\ [](\A w \in WorkerIds :
          workers[w].pc \in {"stream", "wait"} =>
            LET good == SelectSeq(workers[w].lines, LAMBDA item : item \in ParseableItems)
            IN  workers[w].sent =
                  [i \in 1..Len(good) |-> EventOf(good[i], workers[w].total)])
  /\ [][\A w \in WorkerIds :
          (workers[w].pc = "stream" /\ workers'[w].lines # workers[w].lines) =>
            workers'[w].pc = "stream"]_vars

\* A worker has read a line whose time does not parse and then a line whose
\* time parses, and has sent the one Progress of the second.
C8_Witness ==
  \E w \in WorkerIds :
    /\ workers[w].pc = "stream"
    /\ Len(workers[w].lines) = 2
    /\ workers[w].lines[1].ok
    /\ find(workers[w].lines[1].v, "time=") # -1
    /\ workers[w].lines[1] \notin ParseableItems
    /\ workers[w].lines[2] \in ParseableItems
    /\ Len(workers[w].sent) = 1

\* C9: the output a worker is given has an extension that equals, in lower
\* case, the format's; a path without extension has had the format's
\* extension appended, a path with another extension has it in place of its
\* own with the stem kept, and a path whose extension matched is unchanged.
C9_ExtensionNormalized ==
  \A w \in WorkerIds :
    LET given   == workers[w].user_output
        out     == workers[w].output
        sel     == SelectedExtension(workers[w].format)
        wanted  == to_lowercase(trim_start_matches(sel, "."))
        ext     == path_extension(given)
    IN  /\ path_extension(out).some
        /\ to_lowercase(path_extension(out).v) = wanted
        /\ ~ext.some => out = given \o sel
        /\ (ext.some /\ to_lowercase(ext.v) # wanted) =>
             (path_file_stem(out) = path_file_stem(given) /\ path_extension(out).v = wanted)
        /\ (ext.some /\ to_lowercase(ext.v) = wanted) => out = given

\* A field of a duration that is a number and is not negative.
NonNegativeNumber(field) == ParseF32(field).ok /\ FGe(ParseF32(field).v, F(0))

\* C10: parse_duration succeeds exactly on three colon-separated fields that
\* are each a non-negative number, and then returns
\* hours * 3600 + minutes * 60 + seconds.
C10_ParseContract ==
  res.some =>
    LET parts == split(arg, ":")
        good  == Len(parts) = 3 /\ \A i \in 1..3 : NonNegativeNumber(parts[i])
    IN  /\ res.v.ok <=> good
        /\ good => res.v.v = FAdd(FAdd(FMul(ParseF32(parts[1]).v, F(3600)),
                                       FMul(ParseF32(parts[2]).v, F(60))),
                                  ParseF32(parts[3]).v)

====
